---- MODULE Spec2Model ----
(***************************************************************************)
(* Model of desktop-app/main.cpp: the frameless translucent window         *)
(* CustomMainWindow, its drag controller (mousePressEvent, mouseMoveEvent, *)
(* mouseReleaseEvent), its three toolbar buttons and the loadFinished      *)
(* callback that injects a stylesheet into the loaded page.                *)
(*                                                                         *)
(* Everything runs on the UI thread: one handler at a time, each handler   *)
(* one atomic action.                                                      *)
(***************************************************************************)
EXTENDS Integers, Sequences, FiniteSets, TLC

----------------------------------------------------------------------------
(* Bounds of the model. *)

\* local x of a press ranges over 0..MaxX
MaxX == 1
\* local y of a press ranges over 0 and DragBand-MaxNear .. DragBand+MaxNear-1
MaxNear == 1
\* global pointer coordinates of a move range over 0..MaxGlobal
MaxGlobal == 1
\* the window manager places the new window at (i, i), i in 0..MaxInit
MaxInit == 0
\* number of load-completion callbacks delivered
MaxLoads == 2

----------------------------------------------------------------------------
(* QPoint *)

Point(px, py) == [x |-> px, y |-> py]

\* QPoint(): the default-constructed point, (0, 0)
NullPoint == Point(0, 0)

\* QPoint::isNull(): both coordinates are zero
isNull(p) == p.x = 0 /\ p.y = 0

\* QPoint operator- and operator+
Sub(p, q) == Point(p.x - q.x, p.y - q.y)
Add(p, q) == Point(p.x + q.x, p.y + q.y)

----------------------------------------------------------------------------
(* Program constants *)

\* height of the draggable band: event->pos().y() < 50
DragBand == 50

\* mainWindow.resize(800, 300)
InitialWidth == 800
InitialHeight == 300

\* The geometry a maximized window takes: the screen's available geometry.
\* Any rectangle other than a 800 x 300 one does.
availableGeometry == [x |-> 0, y |-> 0, w |-> 1920, h |-> 1080]

\* the three QPushButtons of the toolbar
ControlButtons == {"minimizeButton", "maximizeButton", "closeButton"}

\* what childAt(event->pos()) can return: the web view or a button
Children == {"webView"} \cup ControlButtons

\* dynamic_cast<QPushButton*>(child) != nullptr
IsPushButton(child) == child \in ControlButtons

\* event->button()
MouseButtons == {"LeftButton", "RightButton"}

----------------------------------------------------------------------------
(* Inputs *)

LocalYs == {0} \cup ((DragBand - MaxNear)..(DragBand + MaxNear - 1))
LocalPositions == {Point(i, j) : i \in 0..MaxX, j \in LocalYs}
GlobalPositions == {Point(i, j) : i \in 0..MaxGlobal, j \in 0..MaxGlobal}
InitialPositions == {Point(i, i) : i \in 0..MaxInit}

----------------------------------------------------------------------------
VARIABLES
    geometry,        \* frameGeometry() of the (frameless) window: x, y, w, h
    maximized,       \* windowState() & Qt::WindowMaximized
    minimized,       \* windowState() & Qt::WindowMinimized
    normalGeometry,  \* the geometry showNormal() restores
    closed,          \* close() was called
    m_dragPosition,  \* the drag anchor
    scriptRuns,      \* number of page()->runJavaScript(js) calls
    styleText,       \* text of the <style> element the last run appended
    \* history of the events delivered
    lastEvent,       \* kind of the last event handled
    armed,           \* a drag-starting press was delivered, no release since
    pressOffset,     \* global pointer - window top-left at that press
    lastPress,       \* class of the most recent press event
    idleAtPress,     \* the anchor was unset when that press arrived
    beforeMaximize,  \* geometry the window had before it was maximized
    loadsOk,         \* number of loadFinished(true) callbacks
    loadsFailed      \* number of loadFinished(false) callbacks

windowVars == <<geometry, maximized, minimized, normalGeometry, closed>>
pageVars == <<scriptRuns, styleText, loadsOk, loadsFailed>>
dragHistory == <<armed, pressOffset, lastPress, idleAtPress>>
vars == <<geometry, maximized, minimized, normalGeometry, closed,
          m_dragPosition, scriptRuns, styleText, lastEvent, armed,
          pressOffset, lastPress, idleAtPress, beforeMaximize,
          loadsOk, loadsFailed>>

\* frameGeometry().topLeft()
topLeft == Point(geometry.x, geometry.y)

\* the window receives pointer events and clicks only while it is shown
visible == ~closed /\ ~minimized

----------------------------------------------------------------------------
(* QWidget window-state operations used by the handlers.  Each yields the *)
(* new <<geometry, maximized, minimized, normalGeometry>>.                *)

\* QWidget::showMaximized(): remember the normal geometry, fill the screen
showMaximized ==
    [geometry |-> availableGeometry,
     maximized |-> TRUE,
     minimized |-> FALSE,
     normalGeometry |-> IF maximized THEN normalGeometry ELSE geometry]

\* QWidget::showNormal(): clear the state flags, restore the normal geometry
showNormal ==
    [geometry |-> IF maximized THEN normalGeometry ELSE geometry,
     maximized |-> FALSE,
     minimized |-> FALSE,
     normalGeometry |-> IF maximized THEN normalGeometry ELSE geometry]

\* QWidget::move(p): an actual change of position ends the maximized state
\* and makes the moved geometry the normal one; the size is kept
move(p) ==
    IF p = topLeft
    THEN [geometry |-> geometry, maximized |-> maximized,
          minimized |-> minimized, normalGeometry |-> normalGeometry]
    ELSE [geometry |-> [geometry EXCEPT !.x = p.x, !.y = p.y],
          maximized |-> FALSE,
          minimized |-> minimized,
          normalGeometry |-> [geometry EXCEPT !.x = p.x, !.y = p.y]]

\* the window left as it is
stay ==
    [geometry |-> geometry, maximized |-> maximized,
     minimized |-> minimized, normalGeometry |-> normalGeometry]

SetWindow(w) ==
    /\ geometry' = w.geometry
    /\ maximized' = w.maximized
    /\ minimized' = w.minimized
    /\ normalGeometry' = w.normalGeometry

----------------------------------------------------------------------------
(* Drag controller *)

\* variants of the press condition: without the hit test, without the
\* button test, with the band one pixel taller
PressStartsDragAnyChild(button, pos, child) ==
    button = "LeftButton" /\ pos.y < DragBand

PressStartsDragAnyButton(button, pos, child) ==
    pos.y < DragBand /\ ~IsPushButton(child)

PressStartsDragInclusive(button, pos, child) ==
    /\ button = "LeftButton"
    /\ pos.y <= DragBand
    /\ ~IsPushButton(child)

\* the condition under which mousePressEvent records the anchor
PressStartsDrag(button, pos, child) ==
    /\ button = "LeftButton"
    /\ pos.y < DragBand
    /\ ~IsPushButton(child)

\* m_dragPosition after mousePressEvent
PressAnchor(button, pos, child, globalPos) ==
    IF PressStartsDrag(button, pos, child)
    THEN Sub(globalPos, topLeft)
    ELSE m_dragPosition

\* the window after mouseMoveEvent
MoveWindow(leftHeld, globalPos) ==
    IF leftHeld /\ ~isNull(m_dragPosition)
    THEN move(Sub(globalPos, m_dragPosition))
    ELSE stay

\* a release that leaves the anchor as it is
ReleaseAnchorKept == m_dragPosition

\* m_dragPosition after mouseReleaseEvent
ReleaseAnchor == NullPoint

\* How a press is entered in the history, by the event's own data: "drag"
\* for a left-button press with y < 50 away from the control buttons,
\* "button" for a left-button press with y < 50 over a control button,
\* "rejected" for a press with another button or with y >= 50.
PressClass(button, pos, child) ==
    IF button = "LeftButton" /\ pos.y < 50
    THEN (IF child \in ControlButtons THEN "button" ELSE "drag")
    ELSE "rejected"

\* mousePressEvent(event): event->pos() = pos, childAt(pos) = child.  The
\* window is a frameless top-level widget, so the event's global position
\* is its top-left corner plus the local position.
mousePressEvent(button, pos, child) ==
    /\ visible
    /\ m_dragPosition' = PressAnchor(button, pos, child, Add(topLeft, pos))
    /\ lastEvent' = "press"
    /\ lastPress' = PressClass(button, pos, child)
    /\ idleAtPress' = isNull(m_dragPosition)
    /\ IF PressClass(button, pos, child) = "drag"
       THEN armed' = TRUE /\ pressOffset' = pos
       ELSE UNCHANGED <<armed, pressOffset>>
    /\ UNCHANGED <<windowVars, pageVars, beforeMaximize>>

\* mouseMoveEvent(event): leftHeld = event->buttons() & Qt::LeftButton
mouseMoveEvent(leftHeld, globalPos) ==
    /\ visible
    /\ SetWindow(MoveWindow(leftHeld, globalPos))
    /\ beforeMaximize' = IF maximized' THEN beforeMaximize ELSE geometry'
    /\ lastEvent' = IF leftHeld THEN "moveLeft" ELSE "other"
    /\ UNCHANGED <<closed, m_dragPosition, pageVars, dragHistory>>

\* mouseReleaseEvent(event)
mouseReleaseEvent(button) ==
    /\ visible
    /\ m_dragPosition' = ReleaseAnchor
    /\ lastEvent' = "release"
    /\ armed' = FALSE
    /\ pressOffset' = NullPoint
    /\ UNCHANGED <<windowVars, pageVars, lastPress, idleAtPress,
                   beforeMaximize>>

----------------------------------------------------------------------------
(* Toolbar buttons *)

\* the toggle with its branches exchanged
ToggleMaximizeInverted == IF maximized THEN showMaximized ELSE showNormal

\* the window after a click on the maximize button
ToggleMaximize == IF maximized THEN showNormal ELSE showMaximized

\* maximizeButton clicked
maximizeClicked ==
    /\ visible
    /\ SetWindow(ToggleMaximize)
    /\ beforeMaximize' = IF maximized' THEN geometry ELSE geometry'
    /\ lastEvent' = IF maximized THEN "restore" ELSE "other"
    /\ UNCHANGED <<closed, m_dragPosition, pageVars, dragHistory>>

\* minimizeButton clicked: showMinimized()
minimizeClicked ==
    /\ visible
    /\ minimized' = TRUE
    /\ lastEvent' = "other"
    /\ UNCHANGED <<geometry, maximized, normalGeometry, closed,
                   m_dragPosition, pageVars, dragHistory, beforeMaximize>>

\* the user brings the minimized window back from the task bar
windowShown ==
    /\ ~closed
    /\ minimized
    /\ minimized' = FALSE
    /\ lastEvent' = "other"
    /\ UNCHANGED <<geometry, maximized, normalGeometry, closed,
                   m_dragPosition, pageVars, dragHistory, beforeMaximize>>

\* closeButton clicked: close()
closeClicked ==
    /\ visible
    /\ closed' = TRUE
    /\ lastEvent' = "other"
    /\ UNCHANGED <<geometry, maximized, minimized, normalGeometry,
                   m_dragPosition, pageVars, dragHistory, beforeMaximize>>

----------------------------------------------------------------------------
(* Style injection *)

(* The script: lines 94-125.  It builds the stylesheet text from JavaScript *)
(* string literals joined with +, assigns it to a new <style> element and  *)
(* appends the element to document.head.  The literals below are the       *)
(* characters between the quotes, as the JavaScript engine receives them.  *)

\* lines 103-107: the comment and the rule for body and html
rootRule ==
    << "/* Make root transparent */",
       "body, html {",
       "  background-color: transparent !important;",
       "  background: transparent !important;",
       "}" >>

\* the dark rule with another opacity
darkRuleOpacity80 ==
    << "/* This is the main page background */",
       ".dark .dark\\\\:bg-zinc-900 {",
       "  background-color: rgb(24 24 27 / 0.8) !important;",
       "}" >>

\* lines 109-112: the comment and the rule for the dark background class
darkRule ==
    << "/* This is the main page background */",
       ".dark .dark\\\\:bg-zinc-900 {",
       "  background-color: rgb(24 24 27 / 0.85) !important;",
       "}" >>

\* lines 113-115: the rule for the light background class
lightRule ==
    << ".bg-white {",
       "  background-color: rgb(255 255 255 / 0.85) !important;",
       "}" >>

\* lines 117-121: the comments and the rule for the two header classes
headerRule ==
    << "/* This is the header (already 80% transparent) */",
       "/* We leave it alone so we don\\'t break it! */",
       ".dark .dark\\\\:bg-zinc-900\\\\/80, .bg-white\\\\/80 {",
       "  /* No changes needed! */",
       "}" >>

\* the literals of the var css = ... expression, in order
cssLiterals == rootRule \o darkRule \o lightRule \o headerRule

\* The value of a single-quoted JavaScript string literal: a backslash
\* makes the character after it stand for itself.
RECURSIVE jsStringValue(_)
jsStringValue(lit) ==
    IF Len(lit) = 0 THEN ""
    ELSE IF SubSeq(lit, 1, 1) = "\\" /\ Len(lit) >= 2
         THEN SubSeq(lit, 2, 2) \o jsStringValue(SubSeq(lit, 3, Len(lit)))
         ELSE SubSeq(lit, 1, 1) \o jsStringValue(SubSeq(lit, 2, Len(lit)))

\* the JavaScript + over the literals
RECURSIVE jsConcat(_)
jsConcat(literals) ==
    IF literals = <<>> THEN ""
    ELSE jsStringValue(Head(literals)) \o jsConcat(Tail(literals))

\* style.innerHTML = css
css == jsConcat(cssLiterals)

\* variants of the callback's test: no test of the flag, and a test that
\* lets only the first successful load through
InjectsAlways(ok) == TRUE

InjectsOnce(ok) == ok /\ scriptRuns = 0

\* whether the loadFinished callback runs the script
Injects(ok) == ok

\* loadFinished(ok)
loadFinished(ok) ==
    /\ ~closed
    /\ loadsOk + loadsFailed < MaxLoads
    /\ IF Injects(ok)
       THEN scriptRuns' = scriptRuns + 1 /\ styleText' = css
       ELSE UNCHANGED <<scriptRuns, styleText>>
    /\ loadsOk' = IF ok THEN loadsOk + 1 ELSE loadsOk
    /\ loadsFailed' = IF ok THEN loadsFailed ELSE loadsFailed + 1
    /\ lastEvent' = "other"
    /\ UNCHANGED <<windowVars, m_dragPosition, dragHistory, beforeMaximize>>

----------------------------------------------------------------------------
(* The program: main() constructs the window, sizes it, requests the load *)
(* and shows it; then the event loop delivers events one at a time.       *)

Init ==
    /\ \E p \in InitialPositions :
          geometry = [x |-> p.x, y |-> p.y,
                      w |-> InitialWidth, h |-> InitialHeight]
    /\ normalGeometry = geometry
    /\ beforeMaximize = geometry
    /\ maximized = FALSE
    /\ minimized = FALSE
    /\ closed = FALSE
    /\ m_dragPosition = NullPoint
    /\ scriptRuns = 0
    /\ styleText = ""
    /\ lastEvent = "none"
    /\ armed = FALSE
    /\ pressOffset = NullPoint
    /\ lastPress = "none"
    /\ idleAtPress = TRUE
    /\ loadsOk = 0
    /\ loadsFailed = 0

Press == \E b \in MouseButtons, pos \in LocalPositions, c \in Children :
            mousePressEvent(b, pos, c)
Move == \E leftHeld \in BOOLEAN, g \in GlobalPositions :
            mouseMoveEvent(leftHeld, g)
Release == \E b \in MouseButtons : mouseReleaseEvent(b)
Load == \E ok \in BOOLEAN : loadFinished(ok)

Next ==
    \/ Press
    \/ Move
    \/ Release
    \/ maximizeClicked
    \/ minimizeClicked
    \/ windowShown
    \/ closeClicked
    \/ Load

Spec == Init /\ [][Next]_vars

----------------------------------------------------------------------------
(* Reading a stylesheet text the way CSS does: comments are dropped, a rule *)
(* is a selector followed by a { } block of declarations separated by ;.   *)

\* index of the first occurrence of pat in s at or after i, 0 if none
Find(s, pat, i) ==
    LET hits == {k \in i..(Len(s) - Len(pat) + 1) :
                    SubSeq(s, k, k + Len(pat) - 1) = pat}
    IN  IF hits = {} THEN 0
        ELSE CHOOSE k \in hits : \A j \in hits : k <= j

RECURSIVE StripComments(_)
StripComments(s) ==
    LET a == Find(s, "/*", 1)
        b == Find(s, "*/", a + 2)
    IN  IF a = 0 THEN s
        ELSE IF b = 0 THEN SubSeq(s, 1, a - 1)
        ELSE SubSeq(s, 1, a - 1) \o StripComments(SubSeq(s, b + 2, Len(s)))

RECURSIVE Trim(_)
Trim(s) ==
    IF Len(s) = 0 THEN s
    ELSE IF SubSeq(s, 1, 1) = " " THEN Trim(SubSeq(s, 2, Len(s)))
    ELSE IF SubSeq(s, Len(s), Len(s)) = " " THEN Trim(SubSeq(s, 1, Len(s) - 1))
    ELSE s

\* the declarations of a block, trimmed, the empty ones dropped
RECURSIVE Declarations(_)
Declarations(block) ==
    LET a == Find(block, ";", 1)
        first == Trim(IF a = 0 THEN block ELSE SubSeq(block, 1, a - 1))
        rest == IF a = 0 THEN <<>>
                ELSE Declarations(SubSeq(block, a + 1, Len(block)))
    IN  IF Len(first) = 0 THEN rest ELSE <<first>> \o rest

RECURSIVE ParseRules(_)
ParseRules(s) ==
    LET a == Find(s, "{", 1)
        b == Find(s, "}", a + 1)
    IN  IF a = 0 \/ b = 0 THEN <<>>
        ELSE <<[selector |-> Trim(SubSeq(s, 1, a - 1)),
                declarations |-> Declarations(SubSeq(s, a + 1, b - 1))]>>
             \o ParseRules(SubSeq(s, b + 1, Len(s)))

\* the rules of the stylesheet the script injects
InjectedRules == ParseRules(StripComments(css))

RulesFor(rules, selector) ==
    {i \in DOMAIN rules : rules[i].selector = selector}

\* exactly one rule has this selector, and it has these declarations
OneRule(rules, selector, declarations) ==
    /\ Cardinality(RulesFor(rules, selector)) = 1
    /\ \A i \in RulesFor(rules, selector) :
          rules[i].declarations = declarations

----------------------------------------------------------------------------
(* Properties *)

\* C1: after a left-button press in the band (y < 50) that is not over a
\* control button, every move with the left button held puts the window's
\* top-left corner at (global pointer - offset recorded at the press).
C1_DragTracksPointer ==
    [][\A g \in GlobalPositions :
          (armed /\ mouseMoveEvent(TRUE, g)) => topLeft' = Sub(g, pressOffset)
      ]_vars

\* C2, as stated: after a left-button press over a control button, moves
\* with the left button held leave the window position unchanged.
C2_ButtonPressNeverDrags ==
    [][\A g \in GlobalPositions :
          (lastPress = "button" /\ mouseMoveEvent(TRUE, g))
              => topLeft' = topLeft
      ]_vars

\* C2, amended: a left-button press in the band over a control button
\* leaves the anchor and the window as they are; the left-held moves that
\* follow leave the window where it is if the anchor was unset when the
\* press arrived, and keep relocating it to (pointer - anchor) if the anchor
\* is still set from an earlier press.
C2_ButtonPressKeepsAnchor ==
    [][/\ (lastEvent' = "press" /\ lastPress' = "button")
            => m_dragPosition' = m_dragPosition /\ geometry' = geometry
       /\ \A g \in GlobalPositions :
            (lastPress = "button" /\ mouseMoveEvent(TRUE, g))
                => IF idleAtPress
                   THEN geometry' = geometry
                   ELSE isNull(m_dragPosition)
                        \/ topLeft' = Sub(g, m_dragPosition)
      ]_vars

\* a left-held move was delivered after a button press that arrived with
\* the anchor unset
C2_Witness ==
    lastPress = "button" /\ idleAtPress /\ lastEvent = "moveLeft"

\* C3: a release (any button, any state) unsets the anchor, and no move
\* relocates the window until a new drag-starting press, whatever buttons
\* the move reports.
C3_ReleaseEndsDrag ==
    [][/\ \A b \in MouseButtons :
            mouseReleaseEvent(b) => isNull(m_dragPosition')
       /\ \A l \in BOOLEAN, g \in GlobalPositions :
            (~armed /\ mouseMoveEvent(l, g)) => geometry' = geometry
      ]_vars

\* a drag was started and released, and then a left-held move was delivered
C3_Witness ==
    lastPress = "drag" /\ ~armed /\ lastEvent = "moveLeft"

\* C4: the number of script executions equals the number of load-completion
\* callbacks that carried true.
C4_RunsEqualSuccessfulLoads == scriptRuns = loadsOk

\* a callback with true and a callback with false were delivered
C4_Witness == loadsOk >= 1 /\ loadsFailed >= 1

\* C5, as stated: the script runs at most once over the window's lifetime.
C5_AtMostOneInjection == scriptRuns <= 1

\* C5, amended: every load completion with flag true runs the script once
\* more, also when it has already run for an earlier load.
C5_EverySuccessfulLoadInjects ==
    [][loadFinished(TRUE) => scriptRuns' = scriptRuns + 1]_vars

\* the script has run for two load completions
C5_Witness == scriptRuns = 2 /\ loadsOk = 2

\* C6: a click on the maximize button maximizes a window that is not
\* maximized, and returns a maximized window to the normal state with the
\* geometry it had before it was maximized; the window's own state at the
\* click decides.
C6_MaximizeToggles ==
    [][maximizeClicked =>
          IF maximized
          THEN ~maximized' /\ geometry' = beforeMaximize
          ELSE maximized' /\ beforeMaximize' = geometry
      ]_vars

\* a maximized window was restored by a click, to a position a drag had
\* given it
C6_Witness ==
    /\ lastEvent = "restore"
    /\ ~maximized
    /\ topLeft \notin InitialPositions
    /\ geometry.w = InitialWidth

\* C7: the anchor is unset, or it is the offset of a left-button press in
\* the band, not over a control button, with no release delivered since.
C7_AnchorOnlyDuringPress ==
    ~isNull(m_dragPosition) =>
        /\ armed
        /\ m_dragPosition = pressOffset
        /\ m_dragPosition.y < 50

\* the anchor is set and a left-held move has used it
C7_Witness == ~isNull(m_dragPosition) /\ lastEvent = "moveLeft"

\* C8: every execution injects the same text, whose rules are: one for
\* body and html making the backgrounds transparent, one setting the dark
\* class to rgb(24 24 27) at 85%, one setting the light class to white at
\* 85%, and one for the two header classes with no declarations.
C8_StylesheetContract ==
    scriptRuns > 0 =>
        /\ styleText = css
        /\ Len(InjectedRules) = 4
        /\ OneRule(InjectedRules, "body, html",
                   << "background-color: transparent !important",
                      "background: transparent !important" >>)
        /\ OneRule(InjectedRules, ".dark .dark\\:bg-zinc-900",
                   << "background-color: rgb(24 24 27 / 0.85) !important" >>)
        /\ OneRule(InjectedRules, ".bg-white",
                   << "background-color: rgb(255 255 255 / 0.85) !important" >>)
        /\ OneRule(InjectedRules,
                   ".dark .dark\\:bg-zinc-900\\/80, .bg-white\\/80", << >>)

\* the script has run twice
C8_Witness == scriptRuns >= 2 /\ styleText = css

\* C9: only a release event takes the anchor from set to unset.
C9_OnlyReleaseClears ==
    [][(~isNull(m_dragPosition) /\ isNull(m_dragPosition'))
          => \E b \in MouseButtons : mouseReleaseEvent(b)
      ]_vars

\* C10: with the anchor unset, a press that is not a left-button press with
\* y < 50 away from the control buttons leaves the anchor unset, and the
\* moves that follow a press with another button or with y >= 50 leave the
\* window where it is.
C10_OnlyBandPressStartsDrag ==
    [][/\ (/\ isNull(m_dragPosition)
           /\ lastEvent' = "press"
           /\ lastPress' \in {"rejected", "button"})
            => isNull(m_dragPosition') /\ geometry' = geometry
       /\ \A l \in BOOLEAN, g \in GlobalPositions :
            (lastPress = "rejected" /\ idleAtPress /\ mouseMoveEvent(l, g))
                => geometry' = geometry
      ]_vars

\* a left-held move was delivered after a rejected press that arrived with
\* the anchor unset
C10_Witness ==
    lastPress = "rejected" /\ idleAtPress /\ lastEvent = "moveLeft"

====
